---- MODULE Spec2Model ----
(***************************************************************************)
(* Model of source/SIR.py: the SIR class (constructor validation, the      *)
(* vector field __call__, solve, _calculate) and the integrator it drives. *)
(*                                                                         *)
(* Python values are records [ty, v]; containers are records [ty, items].  *)
(* Floating point numbers are modelled as exact rationals [k, n, d] with   *)
(* the two non-finite kinds of IEEE arithmetic ("nan", "inf"), so rounding *)
(* is abstracted away but division by zero is not.                         *)
(*                                                                         *)
(* scipy's odeint (LSODA) is outside the repository: it is modelled as a   *)
(* fixed-step explicit Euler method over the time grid, which evaluates    *)
(* the vector field once per step on a float64 array.                      *)
(***************************************************************************)
EXTENDS Integers, Sequences, FiniteSets, TLC

VARIABLES
    pc,      \* "new", "odeint", "constructed" or "failed" (the constructor raised)
    op,      \* the method the caller invoked last: "none", "init", "solve", "call"
    kwargs,  \* the merged keyword arguments of __init__ (line 24)
    args,    \* the arguments (u, t) of the last direct call of solve or __call__
    self,    \* the instance's attributes, with the stage construction has reached
    err,     \* the exception raised by the last operation and the place raising it
    ode,     \* the integrator: caller, grid and the rows computed so far
    ret,     \* the value returned by the last direct call
    ev       \* the last evaluation of the vector field: state, result, exception

vars == <<pc, op, kwargs, args, self, err, ode, ret, ev>>

----------------------------------------------------------------------------
(* Bounds of the explored inputs *)

MaxPop == 2
MaxRate == 1
MaxT == 2

----------------------------------------------------------------------------
(* Exact rational arithmetic with IEEE non-finite values *)

Abs(x) == IF x < 0 THEN -x ELSE x

RECURSIVE GCD(_, _)
GCD(a, b) == IF b = 0 THEN a ELSE GCD(b, a % b)

Fin(n, d) ==
    LET s == IF d < 0 THEN -1 ELSE 1
        g == GCD(Abs(n), Abs(d))
    IN [k |-> "fin", n |-> (s * n) \div g, d |-> (s * d) \div g]

NaN == [k |-> "nan", n |-> 0, d |-> 1]
Inf(sgn) == [k |-> "inf", n |-> sgn, d |-> 1]

Sign(a) == IF a.n > 0 THEN 1 ELSE IF a.n < 0 THEN -1 ELSE 0
IsZero(a) == a.k = "fin" /\ a.n = 0
IsFinite(a) == a.k = "fin"

FNeg(a) == [a EXCEPT !.n = -a.n]

FAdd(a, b) ==
    IF a.k = "nan" \/ b.k = "nan" THEN NaN
    ELSE IF a.k = "inf" /\ b.k = "inf" THEN (IF a.n = b.n THEN a ELSE NaN)
    ELSE IF a.k = "inf" THEN a
    ELSE IF b.k = "inf" THEN b
    ELSE LET g == GCD(a.d, b.d)
         IN Fin(a.n * (b.d \div g) + b.n * (a.d \div g), a.d * (b.d \div g))

FSub(a, b) == FAdd(a, FNeg(b))

FMul(a, b) ==
    IF a.k = "nan" \/ b.k = "nan" THEN NaN
    ELSE IF a.k = "inf" \/ b.k = "inf"
         THEN (IF Sign(a) * Sign(b) = 0 THEN NaN ELSE Inf(Sign(a) * Sign(b)))
    ELSE LET g1 == GCD(Abs(a.n), b.d)
             g2 == GCD(Abs(b.n), a.d)
         IN Fin((a.n \div g1) * (b.n \div g2), (a.d \div g2) * (b.d \div g1))

\* float64 division: x/0 is nan or +-inf, never an exception
FDiv(a, b) ==
    IF a.k = "nan" \/ b.k = "nan" THEN NaN
    ELSE IF b.k = "inf" THEN (IF a.k = "inf" THEN NaN ELSE Fin(0, 1))
    ELSE IF b.n = 0 THEN (IF Sign(a) = 0 THEN NaN ELSE Inf(Sign(a)))
    ELSE IF a.k = "inf" THEN Inf(Sign(a) * Sign(b))
    ELSE FMul(a, Fin(b.d, b.n))

\* int(x) of a finite float truncates toward zero
Trunc(a) == IF a.n >= 0 THEN a.n \div a.d ELSE -((-a.n) \div a.d)

\* mathematical floor
Floor(a) == IF a.n >= 0 THEN a.n \div a.d ELSE -(((-a.n) + a.d - 1) \div a.d)

RECURSIVE FSum(_)
FSum(u) == IF u = <<>> THEN Fin(0, 1)
           ELSE FAdd(FSum(SubSeq(u, 1, Len(u) - 1)), u[Len(u)])

----------------------------------------------------------------------------
(* Python values *)

PyInt(v) == [ty |-> "int", v |-> v]
PyFloat(v) == [ty |-> "float", v |-> v]
PyStr == [ty |-> "str", v |-> 0]
PyComplex == [ty |-> "complex", v |-> 0]
UnsetNum == [ty |-> "unset", v |-> 0]
UnsetSeq == [ty |-> "unset", items |-> <<>>]

IsInstance(x, types) == x.ty \in types

Numeric == {"int", "float"}

\* the float64 value of a Python number
ToFloat(x) == Fin(x.v, 1)

AsArray(items) == [i \in 1..Len(items) |-> ToFloat(items[i])]

NoErr == [type |-> "none", at |-> "none"]
Raise(type, at) == [type |-> type, at |-> at]

----------------------------------------------------------------------------
(* SIR.__call__: the vector field.  np = TRUE when u is a float64 array    *)
(* (the integrator's calls), FALSE when u holds Python numbers.            *)

\* variant: the recovery term is missing from dI/dt
Call_NoRecoveryOutflow(beta, gamma, u, np) ==
    IF Len(u) # 3
    THEN [err |-> Raise("ValueError", "call_unpack"), out |-> <<>>]
    ELSE LET S == u[1]
             I == u[2]
             b == ToFloat(beta)
             g == ToFloat(gamma)
         IN IF ~np /\ IsZero(FSum(u))
            THEN [err |-> Raise("ZeroDivisionError", "call_div"), out |-> <<>>]
            ELSE [err |-> NoErr,
                  out |-> << FDiv(FMul(FMul(FNeg(b), S), I), FSum(u)),
                             FDiv(FMul(FMul(b, S), I), FSum(u)),
                             FMul(g, I) >>]

\* variant: the division raises on a zero total whatever the operand types
Call_RaisingDivision(beta, gamma, u, np) ==
    IF Len(u) # 3
    THEN [err |-> Raise("ValueError", "call_unpack"), out |-> <<>>]
    ELSE LET S == u[1]
             I == u[2]
             b == ToFloat(beta)
             g == ToFloat(gamma)
         IN IF IsZero(FSum(u))
            THEN [err |-> Raise("ZeroDivisionError", "call_div"), out |-> <<>>]
            ELSE [err |-> NoErr,
                  out |-> << FDiv(FMul(FMul(FNeg(b), S), I), FSum(u)),
                             FSub(FDiv(FMul(FMul(b, S), I), FSum(u)), FMul(g, I)),
                             FMul(g, I) >>]

\* variant: the transmission term lacks the factor I
Call_NoInfectedFactor(beta, gamma, u, np) ==
    IF Len(u) # 3
    THEN [err |-> Raise("ValueError", "call_unpack"), out |-> <<>>]
    ELSE LET S == u[1]
             I == u[2]
             b == ToFloat(beta)
             g == ToFloat(gamma)
         IN IF ~np /\ IsZero(FSum(u))
            THEN [err |-> Raise("ZeroDivisionError", "call_div"), out |-> <<>>]
            ELSE [err |-> NoErr,
                  out |-> << FDiv(FMul(FNeg(b), S), FSum(u)),
                             FSub(FDiv(FMul(b, S), FSum(u)), FMul(g, I)),
                             FMul(g, I) >>]

Call(beta, gamma, u, np) ==
    IF Len(u) # 3
    THEN [err |-> Raise("ValueError", "call_unpack"), out |-> <<>>]
    ELSE LET S == u[1]
             I == u[2]
             R == u[3]
             b == ToFloat(beta)
             g == ToFloat(gamma)
         IN IF ~np /\ IsZero(FSum(u))
            THEN [err |-> Raise("ZeroDivisionError", "call_div"), out |-> <<>>]
            ELSE [err |-> NoErr,
                  out |-> << FDiv(FMul(FMul(FNeg(b), S), I), FSum(u)),
                             FSub(FDiv(FMul(FMul(b, S), I), FSum(u)), FMul(g, I)),
                             FMul(g, I) >>]

----------------------------------------------------------------------------
(* SIR.__init__ lines 26-36: the four configuration checks, in order *)

\* variant: the dt <= T check is missing
InitCheck_NoRange(kw) ==
    IF ~IsInstance(kw.N0, {"tuple", "list"}) THEN Raise("TypeError", "init_N0")
    ELSE IF ~IsInstance(kw.T, Numeric) THEN Raise("TypeError", "init_T")
    ELSE IF ~IsInstance(kw.dt, Numeric) THEN Raise("TypeError", "init_dt")
    ELSE NoErr

\* variant: the type check of T is missing
InitCheck_NoTCheck(kw) ==
    IF ~IsInstance(kw.N0, {"tuple", "list"}) THEN Raise("TypeError", "init_N0")
    ELSE IF ~IsInstance(kw.dt, Numeric) THEN Raise("TypeError", "init_dt")
    ELSE IF kw.dt.v > kw.T.v THEN Raise("ValueError", "init_dt_gt_T")
    ELSE NoErr

\* variant: the length of N0 is validated with the other fields
InitCheck_Length(kw) ==
    IF ~IsInstance(kw.N0, {"tuple", "list"}) THEN Raise("TypeError", "init_N0")
    ELSE IF Len(kw.N0.items) # 3 THEN Raise("ValueError", "init_N0")
    ELSE IF ~IsInstance(kw.T, Numeric) THEN Raise("TypeError", "init_T")
    ELSE IF ~IsInstance(kw.dt, Numeric) THEN Raise("TypeError", "init_dt")
    ELSE IF kw.dt.v > kw.T.v THEN Raise("ValueError", "init_dt_gt_T")
    ELSE NoErr

InitCheck(kw) ==
    IF ~IsInstance(kw.N0, {"tuple", "list"}) THEN Raise("TypeError", "init_N0")
    ELSE IF ~IsInstance(kw.T, Numeric) THEN Raise("TypeError", "init_T")
    ELSE IF ~IsInstance(kw.dt, Numeric) THEN Raise("TypeError", "init_dt")
    ELSE IF kw.dt.v > kw.T.v THEN Raise("ValueError", "init_dt_gt_T")
    ELSE NoErr

(* builtin sum over N0 (line 65): int, float and complex add up, str does not *)
SumOk(items) == \A i \in 1..Len(items) : items[i].ty \in {"int", "float", "complex"}

SumVal(items) ==
    IF \A i \in 1..Len(items) : items[i].ty \in Numeric
    THEN FSum(AsArray(items))
    ELSE [k |-> "complex", n |-> 0, d |-> 1]

(* int(T / dt) (line 66), defined when dt # 0 *)
NumPoints(T, dt) == Trunc(Fin(T.v, dt.v))

(* np.linspace(0, T, num) for num >= 0 (line 66) *)
Linspace(T, num) ==
    [i \in 1..num |-> IF num = 1 THEN Fin(0, 1) ELSE Fin((i - 1) * T.v, num - 1)]

\* variant: list and tuple time grids are accepted as well
SolveCheck_AnySequence(u0, t) ==
    IF ~IsInstance(u0, {"list", "tuple"}) THEN Raise("TypeError", "solve_u0")
    ELSE IF \E i \in 1..Len(u0.items) : ~IsInstance(u0.items[i], Numeric)
         THEN Raise("ValueError", "solve_elem")
    ELSE IF ~IsInstance(t, {"int", "float", "ndarray", "list", "tuple"})
         THEN Raise("TypeError", "solve_t")
    ELSE NoErr

(* SIR.solve lines 52-60: the argument checks that precede odeint *)
SolveCheck(u0, t) ==
    IF ~IsInstance(u0, {"list", "tuple"}) THEN Raise("TypeError", "solve_u0")
    ELSE IF \E i \in 1..Len(u0.items) : ~IsInstance(u0.items[i], Numeric)
         THEN Raise("ValueError", "solve_elem")
    ELSE IF ~IsInstance(t, {"int", "float", "ndarray"}) THEN Raise("TypeError", "solve_t")
    ELSE NoErr

(* SIR._calculate lines 65-67 up to the call of odeint: the first error, if any *)
CalcCheck(kw) ==
    IF ~SumOk(kw.N0.items) THEN Raise("TypeError", "calc_sum")
    ELSE IF kw.dt.v = 0 THEN Raise("ZeroDivisionError", "calc_div")
    ELSE IF NumPoints(kw.T, kw.dt) < 0 THEN Raise("ValueError", "calc_linspace")
    ELSE SolveCheck(kw.N0, [ty |-> "ndarray", items |-> Linspace(kw.T, NumPoints(kw.T, kw.dt))])

----------------------------------------------------------------------------
(* integrate.odeint(self, u0, t): entry state of the integrator *)

OdeIdle == [caller |-> "none", scalar |-> FALSE, t |-> <<>>, rows |-> <<>>]

OdeEnter(caller, u0, t) ==
    [caller |-> caller,
     scalar |-> t.ty # "ndarray",
     t      |-> t.items,
     rows   |-> IF Len(t.items) = 0 THEN <<>> ELSE <<AsArray(u0.items)>>]

NoEval == [kind |-> "none", u |-> <<>>, out |-> <<>>, err |-> NoErr]

NoRet == [ty |-> "none", rows |-> <<>>]

NoSelf == [stage |-> "none", beta |-> UnsetNum, gamma |-> UnsetNum,
           N0 |-> UnsetSeq, T |-> UnsetNum, dt |-> UnsetNum,
           total |-> Fin(0, 1), t |-> <<>>, n |-> <<>>]

----------------------------------------------------------------------------
(* Inputs *)

Rates == {PyInt(v) : v \in 0..MaxRate}

Elem == {PyInt(v) : v \in -1..MaxPop} \cup {PyStr, PyComplex}

Triples == {<<a, b, c>> : a \in Elem, b \in Elem, c \in Elem}

N0Values ==
    {[ty |-> "tuple", items |-> x] : x \in Triples}
    \cup {[ty |-> "list", items |-> <<PyInt(1), PyFloat(1), PyInt(0)>>],
          [ty |-> "tuple", items |-> <<PyInt(1), PyInt(1)>>],
          [ty |-> "tuple", items |-> <<PyInt(1), PyInt(0), PyInt(0), PyInt(1)>>],
          [ty |-> "str", items |-> <<PyStr, PyStr, PyStr>>],
          [ty |-> "ndarray", items |-> <<PyFloat(1), PyFloat(1), PyFloat(0)>>],
          [ty |-> "int", items |-> <<>>]}

TimeValues == {PyInt(v) : v \in -MaxT..MaxT} \cup {PyFloat(1), PyStr}

NoKwargs == [N0 |-> UnsetSeq, T |-> UnsetNum, dt |-> UnsetNum]
NoArgs == [u |-> UnsetSeq, t |-> UnsetSeq]

Kwargs == [N0 : N0Values, T : TimeValues, dt : TimeValues]

\* configurations of the instances on which solve and __call__ are called directly
CallKwargs ==
    [N0 : {[ty |-> "tuple", items |-> <<PyInt(a), PyInt(b), PyInt(0)>>] :
              a \in 0..MaxPop, b \in -1..1},
     T  : {PyInt(v) : v \in 1..MaxT},
     dt : {PyInt(1), PyFloat(1)}]

SolveStates ==
    {[ty |-> "tuple", items |-> <<PyInt(1), PyInt(1), PyInt(0)>>],
     [ty |-> "list", items |-> <<PyInt(2), PyFloat(1), PyInt(0)>>],
     [ty |-> "tuple", items |-> <<PyInt(1), PyStr, PyInt(0)>>],
     [ty |-> "str", items |-> <<PyStr, PyStr, PyStr>>]}

SolveGrids ==
    {[ty |-> "int", items |-> <<Fin(1, 1)>>],
     [ty |-> "float", items |-> <<Fin(1, 1)>>],
     [ty |-> "list", items |-> <<Fin(0, 1), Fin(1, 1)>>],
     [ty |-> "tuple", items |-> <<Fin(0, 1), Fin(1, 1)>>],
     [ty |-> "ndarray", items |-> <<Fin(0, 1), Fin(1, 1)>>],
     [ty |-> "str", items |-> <<>>]}

CallStates ==
    {[ty |-> "tuple", items |-> <<PyInt(a), PyInt(b), PyInt(c)>>] :
        a \in 0..1, b \in -1..1, c \in 0..1}
    \cup {[ty |-> "tuple", items |-> <<PyInt(1), PyInt(1)>>]}

CallTimes == {[ty |-> "int", items |-> <<Fin(0, 1)>>]}

----------------------------------------------------------------------------
(* State *)

Init ==
    /\ pc = "new"
    /\ op = "none"
    /\ kwargs = NoKwargs
    /\ args = NoArgs
    /\ self = NoSelf
    /\ err = NoErr
    /\ ode = OdeIdle
    /\ ret = NoRet
    /\ ev = NoEval

(* SIR.__init__ (lines 19-42) with _calculate (64-67) and solve (50-62),   *)
(* up to the point where odeint takes over or an exception is raised.      *)
Construct(beta, gamma, kw) ==
    /\ pc = "new"
    /\ op' = "init"
    /\ kwargs' = kw
    /\ ret' = NoRet
    /\ ev' = NoEval
    /\ UNCHANGED args
    /\ LET s0 == [NoSelf EXCEPT !.stage = "params", !.beta = beta, !.gamma = gamma]
           s1 == [s0 EXCEPT !.stage = "config", !.N0 = kw.N0, !.T = kw.T, !.dt = kw.dt]
           s2 == [s1 EXCEPT !.stage = "total", !.total = SumVal(kw.N0.items)]
           s3 == [s2 EXCEPT !.stage = "grid",
                            !.t = Linspace(kw.T, NumPoints(kw.T, kw.dt))]
       IN IF InitCheck(kw) # NoErr
          THEN /\ pc' = "failed"
               /\ err' = InitCheck(kw)
               /\ self' = s0
               /\ ode' = OdeIdle
          ELSE IF CalcCheck(kw) # NoErr
          THEN /\ pc' = "failed"
               /\ err' = CalcCheck(kw)
               /\ self' = IF CalcCheck(kw).at = "calc_sum" THEN s1
                          ELSE IF CalcCheck(kw).at \in {"calc_div", "calc_linspace"} THEN s2
                          ELSE s3
               /\ ode' = OdeIdle
          ELSE /\ pc' = "odeint"
               /\ err' = NoErr
               /\ self' = s3
               /\ ode' = OdeEnter("init", kw.N0, [ty |-> "ndarray", items |-> s3.t])

(* The integrator advances to the next grid point: it evaluates the model  *)
(* on the last row and appends row + h * derivative.  An exception raised  *)
(* by the model propagates out of odeint, solve and the constructor.       *)
OdeStep ==
    /\ pc = "odeint"
    /\ Len(ode.rows) >= 1
    /\ Len(ode.rows) < Len(ode.t)
    /\ LET k == Len(ode.rows)
           u == ode.rows[k]
           h == FSub(ode.t[k + 1], ode.t[k])
           r == Call(self.beta, self.gamma, u, TRUE)
       IN /\ ev' = [kind |-> "np", u |-> u, out |-> r.out, err |-> r.err]
          /\ IF r.err # NoErr
             THEN /\ pc' = IF ode.caller = "init" THEN "failed" ELSE "constructed"
                  /\ err' = r.err
                  /\ ode' = OdeIdle
             ELSE /\ pc' = pc
                  /\ err' = err
                  /\ ode' = [ode EXCEPT !.rows =
                               Append(@, [i \in 1..3 |-> FAdd(u[i], FMul(h, r.out[i]))])]
          /\ UNCHANGED <<op, kwargs, args, self, ret>>

(* odeint returns one row per grid point; the constructor stores it as _n, *)
(* a direct call of solve returns it.                                      *)
OdeReturn ==
    /\ pc = "odeint"
    /\ Len(ode.rows) = Len(ode.t)
    /\ pc' = "constructed"
    /\ err' = NoErr
    /\ ode' = OdeIdle
    /\ IF ode.caller = "init"
       THEN /\ self' = [self EXCEPT !.stage = "solved", !.n = ode.rows]
            /\ ret' = ret
       ELSE /\ self' = self
            /\ ret' = [ty |-> "ndarray", rows |-> ode.rows]
    /\ UNCHANGED <<op, kwargs, args, ev>>

(* odeint's own handling of a grid it cannot integrate over (no points, or *)
(* a bare number instead of an array) belongs to the library: it may also  *)
(* raise instead of returning.                                             *)
OdeReject ==
    /\ pc = "odeint"
    /\ (ode.scalar \/ Len(ode.t) = 0)
    /\ pc' = IF ode.caller = "init" THEN "failed" ELSE "constructed"
    /\ err' = Raise("ValueError", "odeint")
    /\ ode' = OdeIdle
    /\ UNCHANGED <<op, kwargs, args, self, ret, ev>>

(* A direct call of solve(u0, t) on a constructed instance (lines 50-62) *)
Solve(u0, t) ==
    /\ pc = "constructed"
    /\ op' = "solve"
    /\ args' = [u |-> u0, t |-> t]
    /\ ret' = NoRet
    /\ ev' = NoEval
    /\ err' = SolveCheck(u0, t)
    /\ IF SolveCheck(u0, t) # NoErr
       THEN /\ pc' = pc
            /\ ode' = OdeIdle
       ELSE /\ pc' = "odeint"
            /\ ode' = OdeEnter("solve", u0, t)
    /\ UNCHANGED <<kwargs, self>>

(* A direct call of the instance on a tuple of Python numbers (lines 44-48) *)
CallDirect(u, t) ==
    /\ pc = "constructed"
    /\ op' = "call"
    /\ args' = [u |-> u, t |-> t]
    /\ LET r == Call(self.beta, self.gamma, AsArray(u.items), FALSE)
       IN /\ ev' = [kind |-> "py", u |-> AsArray(u.items), out |-> r.out, err |-> r.err]
          /\ err' = r.err
          /\ ret' = IF r.err = NoErr THEN [ty |-> "tuple", rows |-> <<r.out>>] ELSE NoRet
    /\ UNCHANGED <<pc, kwargs, self, ode>>

(* Construction of one instance, over the whole input space *)
Next ==
    \/ pc = "new" /\ \E beta \in Rates, gamma \in Rates, kw \in Kwargs :
                        Construct(beta, gamma, kw)
    \/ OdeStep
    \/ OdeReturn
    \/ OdeReject

Spec == Init /\ [][Next]_vars

(* Construction followed by direct calls of solve and __call__ *)
NextCalls ==
    \/ pc = "new" /\ \E beta \in Rates, gamma \in Rates, kw \in CallKwargs :
                        Construct(beta, gamma, kw)
    \/ OdeStep
    \/ OdeReturn
    \/ OdeReject
    \/ \E u0 \in SolveStates, t \in SolveGrids : Solve(u0, t)
    \/ \E u \in CallStates, t \in CallTimes : CallDirect(u, t)

SpecCalls == Init /\ [][NextCalls]_vars

----------------------------------------------------------------------------
(* Properties *)

NumericSeq(x) ==
    /\ IsInstance(x, {"tuple", "list"})
    /\ \A i \in 1..Len(x.items) : IsInstance(x.items[i], Numeric)

NumericTimes == IsInstance(kwargs.T, Numeric) /\ IsInstance(kwargs.dt, Numeric)

GridBuilt == self.stage \in {"grid", "solved"}

Zero3 == <<Fin(0, 1), Fin(0, 1), Fin(0, 1)>>

ValidationSites == {"init_N0", "init_T", "init_dt", "init_dt_gt_T",
                    "calc_sum", "solve_u0", "solve_elem", "solve_t"}

C2_RangeCheck ==
    (op = "init" /\ IsInstance(kwargs.N0, {"tuple", "list"}) /\ NumericTimes
        /\ kwargs.dt.v > kwargs.T.v) =>
        /\ pc = "failed"
        /\ err = Raise("ValueError", "init_dt_gt_T")
        /\ self.stage = "params"
        /\ ode = OdeIdle
        /\ ev = NoEval

C2_Witness ==
    /\ pc = "failed"
    /\ err = Raise("ValueError", "init_dt_gt_T")
    /\ kwargs.N0.ty = "list"
    /\ kwargs.dt.v > kwargs.T.v

\* C3 as stated: a list/tuple N0 with a non-numeric element (T, dt numeric,
\* dt <= T) fails with the ValueError of solve's element check and no other error.
C3_Original ==
    (op = "init" /\ IsInstance(kwargs.N0, {"tuple", "list"}) /\ NumericTimes
        /\ kwargs.dt.v <= kwargs.T.v
        /\ \E i \in 1..Len(kwargs.N0.items) : ~IsInstance(kwargs.N0.items[i], Numeric)) =>
        /\ pc = "failed"
        /\ err = Raise("ValueError", "solve_elem")

\* C4: a non-sequence N0, a non-numeric T or a non-numeric dt makes the
\* constructor raise TypeError from the first failing type check in the order
\* N0, T, dt; nothing later (range check, grid, integration) is reached.
C4_TypeChecks ==
    (op = "init" /\ ~(IsInstance(kwargs.N0, {"tuple", "list"}) /\ NumericTimes)) =>
        /\ pc = "failed"
        /\ err.type = "TypeError"
        /\ err.at = IF ~IsInstance(kwargs.N0, {"tuple", "list"}) THEN "init_N0"
                    ELSE IF ~IsInstance(kwargs.T, Numeric) THEN "init_T"
                    ELSE "init_dt"
        /\ self.stage = "params"
        /\ ode = OdeIdle
        /\ ev = NoEval

C4_Witness ==
    /\ pc = "failed"
    /\ err = Raise("TypeError", "init_T")
    /\ ~IsInstance(kwargs.T, Numeric)
    /\ ~IsInstance(kwargs.dt, Numeric)
    /\ IsInstance(kwargs.N0, {"tuple", "list"})

\* C5 as stated: for every configuration that passes validation the grid has
\* floor(T/dt) points and the trajectory has one row per grid point.
C5_Original ==
    /\ GridBuilt => Len(self.t) = Floor(Fin(kwargs.T.v, kwargs.dt.v))
    /\ self.stage = "solved" => Len(self.n) = Floor(Fin(kwargs.T.v, kwargs.dt.v))

\* C6 as stated: a numeric list/tuple N0 whose length is not 3 is rejected by
\* configuration validation, before the grid is built or the model evaluated.
C6_Original ==
    (op = "init" /\ NumericSeq(kwargs.N0) /\ Len(kwargs.N0.items) # 3) =>
        /\ pc = "failed"
        /\ self.stage = "params"
        /\ ev = NoEval

\* C6 amended: the length of N0 is not validated.  A numeric list/tuple N0 of
\* another length (T, dt numeric, dt <= T) is rejected by no check of the
\* constructor or of solve, the grid is built whenever it can be, and the
\* length is detected only when the model unpacks the state: that evaluation
\* raises ValueError, which aborts the construction.
C6_LengthNotValidated ==
    (op = "init" /\ NumericSeq(kwargs.N0) /\ Len(kwargs.N0.items) # 3
        /\ NumericTimes /\ kwargs.dt.v <= kwargs.T.v) =>
        /\ err.at \notin ValidationSites
        /\ (kwargs.dt.v # 0 /\ NumPoints(kwargs.T, kwargs.dt) >= 0) => GridBuilt
        /\ ev.kind = "np" => (ev.err = Raise("ValueError", "call_unpack")
                              /\ err = ev.err /\ pc = "failed")

C6_Witness ==
    /\ pc = "failed"
    /\ err = Raise("ValueError", "call_unpack")
    /\ Len(kwargs.N0.items) = 2
    /\ self.stage = "grid"
    /\ Len(self.t) >= 2

\* C7 as stated: evaluating the model on a state whose total is 0 raises a
\* division-by-zero error and returns nothing; during construction the error
\* aborts the constructor.
C7_Original ==
    (ev.kind # "none" /\ Len(ev.u) = 3 /\ IsZero(FSum(ev.u))) =>
        /\ ev.err = Raise("ZeroDivisionError", "call_div")
        /\ ev.out = <<>>
        /\ op = "init" => pc = "failed"

\* C7 amended: on a state whose total is 0 the model raises ZeroDivisionError
\* only when called on Python numbers; when the integrator evaluates it (on a
\* float64 array, as during construction) nothing is raised, dS/dt and dI/dt
\* are nan or infinite, and the constructor is not aborted by the evaluation.
C7_ZeroTotal ==
    (ev.kind # "none" /\ Len(ev.u) = 3 /\ IsZero(FSum(ev.u))) =>
        IF ev.kind = "py"
        THEN /\ ev.err = Raise("ZeroDivisionError", "call_div")
             /\ ev.out = <<>>
             /\ err = ev.err
        ELSE /\ ev.err = NoErr
             /\ ~IsFinite(ev.out[1])
             /\ ~IsFinite(ev.out[2])
             /\ op = "init" => pc # "failed"

C7_Witness ==
    /\ op = "init"
    /\ pc = "constructed"
    /\ ev.kind = "np"
    /\ IsZero(FSum(ev.u))
    /\ ev.err = NoErr
    /\ ev.out[1].k = "inf"

\* C8 as stated: every configuration that passes the constructor's checks has
\* a defined number of grid points int(T/dt) >= 1, so construction never meets
\* a division by zero, a negative length or an empty grid.
C8_Original ==
    (op = "init" /\ InitCheck(kwargs) = NoErr) =>
        /\ err.at \notin {"calc_div", "calc_linspace"}
        /\ GridBuilt => Len(self.t) >= 1

\* C9 as stated: if I0 = 0 every row of the trajectory equals (S0, 0, R0) and
\* the derivative is (0, 0, 0) at every state with I = 0.
C9_Original ==
    (GridBuilt /\ NumericSeq(kwargs.N0) /\ Len(kwargs.N0.items) = 3
        /\ kwargs.N0.items[2].v = 0) =>
        /\ \A i \in 1..Len(ode.rows) : ode.rows[i] = AsArray(kwargs.N0.items)
        /\ \A i \in 1..Len(self.n) : self.n[i] = AsArray(kwargs.N0.items)
        /\ (ev.kind = "np" /\ IsZero(ev.u[2])) => (ev.err = NoErr /\ ev.out = Zero3)

\* C9 amended: if I0 = 0 and S0 + R0 is not zero, every row of the trajectory
\* equals (S0, 0, R0) and the derivative is (0, 0, 0) at every state evaluated.
C9_NoInfection ==
    (GridBuilt /\ NumericSeq(kwargs.N0) /\ Len(kwargs.N0.items) = 3
        /\ kwargs.N0.items[2].v = 0 /\ ~IsZero(self.total)) =>
        /\ \A i \in 1..Len(ode.rows) : ode.rows[i] = AsArray(kwargs.N0.items)
        /\ \A i \in 1..Len(self.n) : self.n[i] = AsArray(kwargs.N0.items)
        /\ (ev.kind = "np" /\ IsZero(ev.u[2])) => (ev.err = NoErr /\ ev.out = Zero3)

C9_Witness ==
    /\ self.stage = "solved"
    /\ Len(self.n) >= 2
    /\ kwargs.N0.items[2].v = 0
    /\ kwargs.N0.items[1].v > 0
    /\ self.beta.v > 0
    /\ self.gamma.v > 0
    /\ ev.kind = "np"
    /\ self.n[2] = self.n[1]

\* C10 as stated: with a valid initial state, solve lets an int, a float, a
\* list, a tuple or an array through to the integrator and rejects only other
\* time grids, with TypeError.
C10_Original ==
    (op = "solve" /\ NumericSeq(args.u)) =>
        IF args.t.ty \in {"int", "float", "list", "tuple", "ndarray"}
        THEN err.at \notin ValidationSites
        ELSE err = Raise("TypeError", "solve_t")

\* C10 amended: with a valid initial state, solve lets exactly an int, a float
\* or a numpy array through to the integrator; every other time grid, a list
\* or tuple of numbers included, is rejected with TypeError.
C10_TimeGridCheck ==
    (op = "solve" /\ NumericSeq(args.u)) =>
        IF args.t.ty \in {"int", "float", "ndarray"}
        THEN err.at \notin ValidationSites
        ELSE err = Raise("TypeError", "solve_t") /\ pc = "constructed" /\ ode = OdeIdle

C10_Witness ==
    /\ op = "solve"
    /\ NumericSeq(args.u)
    /\ args.t.ty = "float"
    /\ pc = "odeint"
    /\ ode.caller = "solve"

====
